---- MODULE Spec2Model ----
(***************************************************************************)
(* A model of the YouTube downloader service of src/main.py: the storage   *)
(* tree under DOWNLOADS_DIR, the request handlers that read and change it, *)
(* the delayed cleanup tasks, and the URL helpers of YouTubeDownloader.    *)
(*                                                                         *)
(* Every handler is an `async def` whose body never awaits, so a request   *)
(* runs to completion before any other request or cleanup task runs: one   *)
(* action per handler.  The extraction engine (yt_dlp) is outside the      *)
(* repository: each call of it is a nondeterministic choice between        *)
(* raising an error with some message and returning metadata, having       *)
(* written the predicted output file or not.                               *)
(***************************************************************************)
EXTENDS Integers, Sequences, FiniteSets, TLC

\* ------------------------------------------------------------------ bounds

\* Most cleanup tasks pending at once.
MaxTasks == 2
\* Most entries the engine returns for one playlist.
MaxEntries == 2
\* The files found on disk before a playlist download have sizes 1..MaxSize.
MaxSize == 2
\* Most parameters in the query string of a URL.
MaxParams == 2

\* ------------------------------------------------------------ storage tree

\* Basenames of stored files, and names of playlist subdirectories.
Names == {"a.mp4", "b.mp4"}
DirNames == {"PL1", "PL2"}
Sizes == 1..MaxSize
\* The size of the file the engine writes for a video.
SizeOf(name) == IF name = "a.mp4" THEN 1 ELSE 2

\* A path is relative to DOWNLOADS_DIR: <<name>> is os.path.join(DOWNLOADS_DIR,
\* name), <<dir, name>> a file of a playlist subdirectory.
RootPaths == {<<n>> : n \in Names}
SubPaths == {<<d, n>> : d \in DirNames, n \in Names}
Paths == RootPaths \cup SubPaths

VARIABLES
    disk,    \* the regular files under DOWNLOADS_DIR: a function path -> size
    dirs,    \* the subdirectories of DOWNLOADS_DIR that exist
    tasks,   \* the cleanup tasks that are sleeping, oldest first
    ev,      \* what the last handler or task did: request, response, log
    norm,    \* a call of normalize_url: its argument and, once done, its result
    info     \* what the engine returned to the last call of download_playlist

vars == <<disk, dirs, tasks, ev, norm, info>>

basename(p) == p[Len(p)]

\* os.path.exists: true of a regular file and of a directory alike.
\* The empty storage tree.
EmptyDisk == [p \in {} |-> 1]

\* os.path.isfile, and os.path.exists: the latter is true of a regular file and
\* of a directory alike.  d is the tree, ds its subdirectories.
isfile(d, p) == p \in DOMAIN d
exists(d, ds, p) == isfile(d, p) \/ (Len(p) = 1 /\ p[1] \in ds)

\* The tree after os.remove(p) succeeded.
removed(d, p) == [q \in (DOMAIN d) \ {p} |-> d[q]]

\* The tree after the engine wrote a file of size s at p.
written(d, p, s) == [q \in (DOMAIN d) \cup {p} |-> IF q = p THEN s ELSE d[q]]

\* ------------------------------------------------------------------ strings

\* A Python str is the sequence of its characters.
SHORT_HOST == <<"y", "o", "u", "t", "u", ".", "b", "e">>
MOBILE_HOST == <<"m", ".", "y", "o", "u", "t", "u", "b", "e", ".", "c", "o", "m">>
DESKTOP_HOST == <<"w", "w", "w", ".", "y", "o", "u", "t", "u", "b", "e", ".", "c", "o", "m">>
EMBED_MARK == <<"/", "e", "m", "b", "e", "d", "/">>
V_MARK == <<"/", "v", "/">>
WATCH_PREFIX ==
    <<"h", "t", "t", "p", "s", ":", "/", "/", "w", "w", "w", ".", "y", "o", "u", "t", "u",
      "b", "e", ".", "c", "o", "m", "/", "w", "a", "t", "c", "h", "?", "v", "=">>
PLAYLIST_MARK == <<"p", "l", "a", "y", "l", "i", "s", "t", "?", "l", "i", "s", "t", "=">>
LIST_MARK == <<"&", "l", "i", "s", "t", "=">>
SLASH == <<"/">>
QMARK == <<"?">>

\* str.find, 1-based: the least index >= from at which sub occurs in s, or 0.
find(s, sub, from) ==
    LET at == {i \in from..(Len(s) - Len(sub) + 1) : SubSeq(s, i, i + Len(sub) - 1) = sub}
    IN  IF at = {} THEN 0 ELSE CHOOSE i \in at : \A j \in at : i <= j

\* sub in s
contains(sub, s) == find(s, sub, 1) # 0

\* s.split(sep): the pieces between the occurrences of sep, found left to right
\* without overlap.
RECURSIVE split(_, _)
split(s, sep) ==
    LET i == find(s, sep, 1)
    IN  IF i = 0 THEN <<s>>
        ELSE <<SubSeq(s, 1, i - 1)>> \o split(SubSeq(s, i + Len(sep), Len(s)), sep)

\* s.replace(old, new): every occurrence of old, found left to right without
\* overlap, replaced by new.
RECURSIVE replace(_, _, _)
replace(s, old, new) ==
    LET i == find(s, old, 1)
    IN  IF i = 0 THEN s
        ELSE SubSeq(s, 1, i - 1) \o new \o replace(SubSeq(s, i + Len(old), Len(s)), old, new)

\* xs[-1] and xs[0] of a Python list.
last(xs) == xs[Len(xs)]
first(xs) == xs[1]

\* ----------------------------------------------------- YouTubeDownloader URLs

normalize_url_no_mobile(url) ==
    IF contains(SHORT_HOST, url)
    THEN WATCH_PREFIX \o first(split(last(split(url, SLASH)), QMARK))
    ELSE IF contains(EMBED_MARK, url)
    THEN WATCH_PREFIX \o first(split(last(split(url, EMBED_MARK)), QMARK))
    ELSE IF contains(V_MARK, url)
    THEN WATCH_PREFIX \o first(split(last(split(url, V_MARK)), QMARK))
    ELSE url

normalize_url(url) ==
    IF contains(SHORT_HOST, url)
    THEN WATCH_PREFIX \o first(split(last(split(url, SLASH)), QMARK))
    ELSE LET u == IF contains(MOBILE_HOST, url)
                  THEN replace(url, MOBILE_HOST, DESKTOP_HOST)
                  ELSE url
         IN  IF contains(EMBED_MARK, u)
             THEN WATCH_PREFIX \o first(split(last(split(u, EMBED_MARK)), QMARK))
             ELSE IF contains(V_MARK, u)
             THEN WATCH_PREFIX \o first(split(last(split(u, V_MARK)), QMARK))
             ELSE u

is_playlist_url_listing_only(url) == contains(PLAYLIST_MARK, url)

is_playlist_url(url) == contains(PLAYLIST_MARK, url) \/ contains(LIST_MARK, url)

\* ------------------------------------------------------------- request URLs

\* The URLs a client sends: https://<host><path>[?<param>&<param>...].
HTTPS == <<"h", "t", "t", "p", "s", ":", "/", "/">>
AMP == <<"&">>
P_VIDEO == <<"v", "=", "a", "b", "c">>
P_LIST == <<"l", "i", "s", "t", "=", "P", "L">>
P_SLASH == <<"u", "=", "a", "/", "b">>
P_QMARK == <<"r", "=", "x", "?", "y">>
P_MOBILE == <<"h", "=", "m", ".", "y", "o", "u", "t", "u", "b", "e", ".", "c", "o", "m">>
P_DESKTOP ==
    <<"h", "=", "w", "w", "w", ".", "y", "o", "u", "t", "u", "b", "e", ".", "c", "o", "m">>
P_VPATH == <<"n", "=", "/", "v", "/", "z">>
PATH_WATCH == <<"/", "w", "a", "t", "c", "h">>
PATH_ID == <<"/", "a", "b", "c">>
PATH_EMBED == <<"/", "e", "m", "b", "e", "d", "/", "a", "b", "c">>
PATH_V == <<"/", "v", "/", "a", "b", "c">>
PATH_PLAYLIST == <<"/", "p", "l", "a", "y", "l", "i", "s", "t">>

UrlHosts == {SHORT_HOST, MOBILE_HOST, DESKTOP_HOST}
UrlPaths == {PATH_WATCH, PATH_ID, PATH_EMBED, PATH_V, PATH_PLAYLIST, SLASH}
UrlParams == {P_VIDEO, P_LIST, P_SLASH, P_QMARK, P_MOBILE, P_VPATH}
ParamLists == UNION {[1..k -> UrlParams] : k \in 0..MaxParams}

RECURSIVE join(_, _)
join(ps, sep) ==
    IF ps = <<>> THEN <<>>
    ELSE IF Len(ps) = 1 THEN ps[1]
    ELSE ps[1] \o sep \o join(Tail(ps), sep)

QueryOf(ps) == IF ps = <<>> THEN <<>> ELSE QMARK \o join(ps, AMP)

UrlOf(host, path, ps) == HTTPS \o host \o path \o QueryOf(ps)

\* The URLs of the requests to the service.
WATCH_URL == UrlOf(DESKTOP_HOST, PATH_WATCH, <<P_VIDEO>>)
ReqURLs ==
    { WATCH_URL,
      UrlOf(DESKTOP_HOST, PATH_WATCH, <<P_VIDEO, P_LIST>>),
      UrlOf(DESKTOP_HOST, PATH_PLAYLIST, <<P_LIST>>) }

\* ------------------------------------------------------ errors and responses

\* fastapi.HTTPException(status_code, detail).  A detail is a sequence of
\* message parts.
HTTPException(status, detail) == [status |-> status, detail |-> detail]

\* str(e) of an HTTPException, as Starlette defines it:
\* "<status_code>: <detail>".
StrHTTP(e) == <<e.status>> \o e.detail

\* What a function did: returned a value, or raised.
Return(v) == [ok |-> TRUE, value |-> v]
Raise(e) == [ok |-> FALSE, exc |-> e]

\* The last event: the request (op, arg), the response (status, detail and
\* the body's fields), and what the handler did on the way (engine: whether
\* the engine was called and how the call ended; msg: the engine's error
\* message; path: the file the handler resolved or predicted; sched: whether
\* it scheduled a cleanup task; raised, log: how a cleanup task ended;
\* offered: for a GET /download, the files for which the response before it
\* gave the download_url now requested).
NoEvent ==
    [op |-> "none", arg |-> <<>>, status |-> "", detail |-> <<>>, engine |-> "none",
     msg |-> <<>>, path |-> <<>>, size |-> 0, download_url |-> <<>>, sched |-> FALSE,
     files |-> <<>>, count |-> 0, total |-> 0, raised |-> FALSE, log |-> "",
     offered |-> {}]

NoInfo == [raised |-> TRUE, msg |-> <<>>]

\* No call of normalize_url.
NoCall == [host |-> <<>>, path |-> <<>>, params |-> <<>>, url |-> <<>>,
           out |-> <<>>, done |-> FALSE]

\* ------------------------------------------------------ the extraction engine

BOT_PHRASE == "Sign in to confirm you're not a bot"
AUTH_GUIDANCE == "YouTube is requiring authentication to access this video."

\* The messages of the errors the engine raises.
AuthMsgs == {<<"ERROR:", BOT_PHRASE>>, <<"Cookies", "required">>,
             <<"Authentication", "failed">>}
ErrMsgs == AuthMsgs \cup {<<"Video", "unavailable">>}

\* str.lower, on the words of the messages.
lower(w) ==
    CASE w = "Cookies" -> "cookies"
      [] w = "Authentication" -> "authentication"
      [] w = "ERROR:" -> "error:"
      [] w = "Video" -> "video"
      [] OTHER -> w

Words(msg) == {msg[i] : i \in 1..Len(msg)}

\* extract_info(url, download=False): raises, or returns the metadata.
InfoEngine == [raised : {TRUE}, msg : ErrMsgs] \cup [raised : {FALSE}]

\* extract_info(url, download=True) and prepare_filename of one video: raises,
\* or returns metadata that predict the output file <<name>>, having written
\* that file or not.
VideoEngine ==
    [raised : {TRUE}, msg : ErrMsgs] \cup [raised : {FALSE}, name : Names, wrote : BOOLEAN]

\* An entry of a playlist: None, or the metadata of one video.
NoneEntry == [name |-> "None", wrote |-> FALSE]
Entries == {NoneEntry} \cup [name : Names, wrote : BOOLEAN]

\* The outtmpl of a playlist numbers the files: two entries of one playlist
\* never predict the same file.
EntryLists ==
    {es \in UNION {[1..k -> Entries] : k \in 0..MaxEntries} :
        \A i, j \in 1..Len(es) :
            (i # j /\ es[i] # NoneEntry /\ es[j] # NoneEntry) => es[i].name # es[j].name}

\* extract_info(url, download=True) of a playlist: raises, or returns metadata
\* without an 'entries' key, or with the entries of the playlist dir.
PlaylistEngine ==
    [raised : {TRUE}, msg : ErrMsgs]
        \cup [raised : {FALSE}, has_entries : {FALSE}, dir : DirNames, entries : {<<>>}]
        \cup [raised : {FALSE}, has_entries : {TRUE}, dir : DirNames, entries : EntryLists]

\* The tree after the engine's call for one video.
VideoWrites(d, o) ==
    IF ~o.raised /\ o.wrote THEN written(d, <<o.name>>, SizeOf(o.name)) ELSE d

\* The tree after the engine's call for a playlist: the files of the entries
\* it wrote, in order.
RECURSIVE EntriesWrite(_, _, _)
EntriesWrite(d, dir, es) ==
    IF es = <<>> THEN d
    ELSE EntriesWrite(IF Head(es).wrote
                      THEN written(d, <<dir, Head(es).name>>, SizeOf(Head(es).name))
                      ELSE d,
                      dir, Tail(es))

PlaylistWrites(d, o) == IF o.raised THEN d ELSE EntriesWrite(d, o.dir, o.entries)

PlaylistDirs(ds, o) ==
    IF ~o.raised /\ \E i \in 1..Len(o.entries) : o.entries[i].wrote
    THEN ds \cup {o.dir}
    ELSE ds

\* ------------------------------------------------- YouTubeDownloader methods

\* The test of get_video_info on the message of the engine's error.
auth_challenge(msg) ==
    \/ BOT_PHRASE \in Words(msg)
    \/ "cookies" \in {lower(w) : w \in Words(msg)}
    \/ "authentication" \in {lower(w) : w \in Words(msg)}

\* YouTubeDownloader.get_video_info, o what the engine did.
Downloader_get_video_info(o) ==
    IF o.raised
    THEN IF auth_challenge(o.msg)
         THEN Raise(HTTPException("400", <<AUTH_GUIDANCE>>))
         ELSE Raise(HTTPException("400", <<"Failed to extract video info:">> \o o.msg))
    ELSE Return("info")

\* YouTubeDownloader.download_video, o what the engine did and d the tree
\* after it.  The HTTPException(500) of the missing file is raised inside
\* the try block, whose `except Exception` catches it and raises a 400.
Downloader_download_video(o, d) ==
    IF o.raised
    THEN Raise(HTTPException("400", <<"Download failed:">> \o o.msg))
    ELSE LET filename == <<o.name>>
         IN  IF isfile(d, filename)
             THEN Return([file_path |-> filename, file_size |-> d[filename],
                          title |-> o.name])
             ELSE Raise(HTTPException("400",
                      <<"Download failed:">>
                          \o StrHTTP(HTTPException("500",
                                 <<"Download completed but file not found">>))))

\* The loop of download_playlist over the entries: downloaded_files and
\* total_size, from the accumulators files and total.
RECURSIVE playlist_loop(_, _, _, _, _)
playlist_loop(es, dir, d, files, total) ==
    IF es = <<>> THEN [files |-> files, total_size |-> total]
    ELSE LET entry == Head(es)
             filename == <<dir, entry.name>>
         IN  IF entry # NoneEntry /\ isfile(d, filename)
             THEN playlist_loop(Tail(es), dir, d,
                      Append(files, [title |-> entry.name, file_path |-> filename,
                                     file_size |-> d[filename]]),
                      total + d[filename])
             ELSE playlist_loop(Tail(es), dir, d, files, total)

Downloader_download_playlist_strict(o, d) ==
    IF o.raised
    THEN Raise(HTTPException("400", <<"Playlist download failed:">> \o o.msg))
    ELSE IF \E i \in 1..Len(o.entries) :
                o.entries[i] # NoneEntry /\ ~isfile(d, <<o.dir, o.entries[i].name>>)
    THEN Raise(HTTPException("400", <<"Playlist download failed:">>))
    ELSE LET r == playlist_loop(o.entries, o.dir, d, <<>>, 0)
         IN  Return([downloaded_count |-> Len(r.files), files |-> r.files,
                     total_size |-> r.total_size])

\* YouTubeDownloader.download_playlist, o what the engine did and d the tree
\* after it.
Downloader_download_playlist(o, d) ==
    IF o.raised
    THEN Raise(HTTPException("400", <<"Playlist download failed:">> \o o.msg))
    ELSE LET r == IF o.has_entries
                  THEN playlist_loop(o.entries, o.dir, d, <<>>, 0)
                  ELSE [files |-> <<>>, total_size |-> 0]
         IN  Return([downloaded_count |-> Len(r.files), files |-> r.files,
                     total_size |-> r.total_size])

\* ------------------------------------------------------------ file resolution

\* The files named filename that os.walk(DOWNLOADS_DIR) meets.
walk_matches(d, filename) == {p \in DOMAIN d : basename(p) = filename}

resolve_root_only(d, ds, filename) == {<<filename>>}

\* The path download_file and delete_file resolve filename to: the entry of
\* the root if one exists, else the first file of that name that os.walk
\* meets (it lists the subdirectories in no specified order: any of them),
\* else the path in the root.
resolve(d, ds, filename) ==
    IF exists(d, ds, <<filename>>) THEN {<<filename>>}
    ELSE IF walk_matches(d, filename) # {} THEN walk_matches(d, filename)
    ELSE {<<filename>>}

\* The names a request may ask for.
ReqNames == Names \cup DirNames

\* ------------------------------------------------------------------ handlers

Init ==
    /\ disk = EmptyDisk
    /\ dirs = {}
    /\ tasks = <<>>
    /\ ev = NoEvent
    /\ norm = NoCall
    /\ info = NoInfo

\* POST /video/info
get_video_info ==
    \E o \in InfoEngine :
        LET r == Downloader_get_video_info(o)
        IN  /\ ev' = [NoEvent EXCEPT
                        !.op = "video_info",
                        !.engine = IF o.raised THEN "raised" ELSE "returned",
                        !.msg = IF o.raised THEN o.msg ELSE <<>>,
                        !.status = IF r.ok THEN "200" ELSE "400",
                        !.detail = IF r.ok THEN <<>> ELSE StrHTTP(r.exc)]
            /\ UNCHANGED <<disk, dirs, tasks, norm, info>>

add_task_never(ts, path) == ts

\* The task list after background_tasks.add_task(cleanup_file, path).
add_task(ts, path) == Append(ts, path)

\* The response of POST /video/download to url, r what the downloader did
\* and sched whether a cleanup task was added.
video_response(url, o, r, sched) ==
    IF r.ok
    THEN [NoEvent EXCEPT
            !.op = "video_download", !.arg = url,
            !.engine = "returned", !.status = "200",
            !.path = r.value.file_path,
            !.size = r.value.file_size,
            !.download_url = <<"/download", basename(r.value.file_path)>>,
            !.sched = sched]
    ELSE [NoEvent EXCEPT
            !.op = "video_download", !.arg = url,
            !.engine = IF o.raised THEN "raised" ELSE "returned",
            !.msg = IF o.raised THEN o.msg ELSE <<>>,
            !.path = IF o.raised THEN <<>> ELSE <<o.name>>,
            !.status = "400", !.detail = StrHTTP(r.exc)]

video_after(url, o, d, r) ==
    /\ disk' = d
    /\ dirs' = dirs
    /\ tasks' = IF r.ok THEN add_task(tasks, r.value.file_path) ELSE tasks
    /\ ev' = video_response(url, o, r, tasks' # tasks)

video_step(url, o, d) == video_after(url, o, d, Downloader_download_video(o, d))

\* POST /video/download.  The playlist check raises its HTTPException(400)
\* inside the try block, whose `except Exception` raises a 400 of its str.
download_video ==
    /\ Len(tasks) < MaxTasks
    /\ \E url \in ReqURLs :
           IF is_playlist_url(url)
           THEN /\ ev' = [NoEvent EXCEPT
                            !.op = "video_download", !.arg = url, !.status = "400",
                            !.detail = StrHTTP(HTTPException("400",
                                           <<"Playlist URL detected.">>))]
                /\ UNCHANGED <<disk, dirs, tasks>>
           ELSE \E o \in VideoEngine : video_step(url, o, VideoWrites(disk, o))
    /\ UNCHANGED <<norm, info>>

response_files_dirname(files) ==
    [i \in 1..Len(files) |->
        [title |-> files[i].title,
         file_path |-> files[i].file_path,
         download_url |-> <<"/download", files[i].file_path[1]>>,
         file_size |-> files[i].file_size]]

\* The files of the response of POST /playlist/download, of those of the
\* downloader's result.
response_files(files) ==
    [i \in 1..Len(files) |->
        [title |-> files[i].title,
         file_path |-> files[i].file_path,
         download_url |-> <<"/download", basename(files[i].file_path)>>,
         file_size |-> files[i].file_size]]

\* The response of POST /playlist/download, r what the downloader did.
playlist_response(o, r) ==
    IF r.ok
    THEN [NoEvent EXCEPT
            !.op = "playlist_download",
            !.engine = "returned", !.status = "200",
            !.count = r.value.downloaded_count,
            !.total = r.value.total_size,
            !.files = response_files(r.value.files)]
    ELSE [NoEvent EXCEPT
            !.op = "playlist_download",
            !.engine = IF o.raised THEN "raised" ELSE "returned",
            !.msg = IF o.raised THEN o.msg ELSE <<>>,
            !.status = "400", !.detail = StrHTTP(r.exc)]

playlist_after(o, d) ==
    /\ disk' = d
    /\ dirs' = PlaylistDirs(dirs, o)
    /\ tasks' = tasks
    /\ ev' = playlist_response(o, Downloader_download_playlist(o, d))

\* POST /playlist/download, o what the engine does.
playlist_step(o) == playlist_after(o, PlaylistWrites(disk, o))

download_playlist ==
    /\ \E o \in PlaylistEngine : playlist_step(o)
    /\ UNCHANGED <<norm, info>>

\* The files for which the response e gave the download_url
\* '/download/<filename>': the file_path of a /video/download response, the
\* files of a /playlist/download response.
offered(e, filename) ==
    IF e.status # "200" THEN {}
    ELSE IF e.op = "video_download"
    THEN IF e.download_url = <<"/download", filename>> THEN {e.path} ELSE {}
    ELSE IF e.op = "playlist_download"
    THEN {e.files[i].file_path :
            i \in {j \in 1..Len(e.files) :
                     e.files[j].download_url = <<"/download", filename>>}}
    ELSE {}

\* The response of GET /download/{filename}, file_path what the name resolved
\* to.  FileResponse answers a path that is no regular file with a server
\* error.
file_response(filename, file_path, off) ==
    IF ~exists(disk, dirs, file_path)
    THEN [NoEvent EXCEPT
            !.op = "download_file", !.arg = <<filename>>, !.offered = off,
            !.status = "404", !.detail = <<"File not found">>]
    ELSE IF isfile(disk, file_path)
    THEN [NoEvent EXCEPT
            !.op = "download_file", !.arg = <<filename>>, !.offered = off,
            !.status = "200", !.path = file_path,
            !.size = disk[file_path]]
    ELSE [NoEvent EXCEPT
            !.op = "download_file", !.arg = <<filename>>, !.offered = off,
            !.status = "500", !.path = file_path,
            !.detail = <<"Internal Server Error">>]

\* GET /download/{filename}
download_file ==
    \E filename \in ReqNames :
        \E file_path \in resolve(disk, dirs, filename) :
            /\ ev' = file_response(filename, file_path, offered(ev, filename))
            /\ UNCHANGED <<disk, dirs, tasks, norm, info>>

\* The listing of GET /files: one record per regular file under the root
\* (os.walk fixes no order: a set).
listing(d) ==
    {[filename |-> basename(p), path |-> p, size |-> d[p],
      download_url |-> <<"/download", basename(p)>>] : p \in DOMAIN d}

\* GET /files
list_files ==
    /\ ev' = [NoEvent EXCEPT
                !.op = "list_files", !.status = "200",
                !.files = listing(disk), !.count = Cardinality(DOMAIN disk)]
    /\ UNCHANGED <<disk, dirs, tasks, norm, info>>

\* DELETE /files/{filename}.  os.remove raises on a directory, and may fail
\* on a file (fails).
delete_file ==
    \E filename \in ReqNames, fails \in BOOLEAN :
        \E file_path \in resolve(disk, dirs, filename) :
            /\ IF ~exists(disk, dirs, file_path)
               THEN /\ ev' = [NoEvent EXCEPT
                                !.op = "delete_file", !.arg = <<filename>>,
                                !.status = "404", !.detail = <<"File not found">>]
                    /\ disk' = disk
               ELSE IF fails \/ ~isfile(disk, file_path)
               THEN /\ ev' = [NoEvent EXCEPT
                                !.op = "delete_file", !.arg = <<filename>>,
                                !.status = "500", !.path = file_path,
                                !.detail = <<"Failed to delete file:">>]
                    /\ disk' = disk
               ELSE /\ ev' = [NoEvent EXCEPT
                                !.op = "delete_file", !.arg = <<filename>>,
                                !.status = "200", !.path = file_path]
                    /\ disk' = removed(disk, file_path)
            /\ UNCHANGED <<dirs, tasks, norm, info>>

cleanup_body_no_except(d, ds, file_path, fails) ==
    IF fails \/ ~isfile(d, file_path)
    THEN [disk |-> d, raised |-> TRUE, log |-> ""]
    ELSE [disk |-> removed(d, file_path), raised |-> FALSE, log |-> "Cleaned up file"]

\* What a cleanup task does once its sleep is over: [disk, raised, log].
\* fails: os.remove raises.
cleanup_body(d, ds, file_path, fails) ==
    IF exists(d, ds, file_path)
    THEN IF fails \/ ~isfile(d, file_path)
         THEN [disk |-> d, raised |-> FALSE, log |-> "Failed to clean up file"]
         ELSE [disk |-> removed(d, file_path), raised |-> FALSE, log |-> "Cleaned up file"]
    ELSE [disk |-> d, raised |-> FALSE, log |-> ""]

cleanup_after(c) ==
    /\ disk' = c.disk
    /\ ev' = [NoEvent EXCEPT
                !.op = "cleanup_file", !.path = Head(tasks),
                !.raised = c.raised, !.log = c.log]

\* cleanup_file: the tasks sleep for the same delay, so the oldest wakes first.
cleanup_file ==
    /\ tasks # <<>>
    /\ \E fails \in BOOLEAN : cleanup_after(cleanup_body(disk, dirs, Head(tasks), fails))
    /\ tasks' = Tail(tasks)
    /\ UNCHANGED <<dirs, norm, info>>

Next ==
    \/ get_video_info
    \/ download_video
    \/ download_playlist
    \/ download_file
    \/ list_files
    \/ delete_file
    \/ cleanup_file

Spec == Init /\ [][Next]_vars

\* ------------------------------------------------- download_playlist, alone

\* The storage trees a playlist download may find: any files of any sizes in
\* the playlist subdirectories.
PlaylistTrees == UNION {[S -> Sizes] : S \in SUBSET SubPaths}

PlaylistInit ==
    /\ disk \in PlaylistTrees
    /\ dirs = {p[1] : p \in DOMAIN disk}
    /\ tasks = <<>>
    /\ ev = NoEvent
    /\ norm = NoCall
    /\ info = NoInfo

\* One call of POST /playlist/download, info what the engine returned to it.
playlist_call ==
    /\ ev.op = "none"
    /\ \E o \in PlaylistEngine : playlist_step(o) /\ info' = o
    /\ norm' = norm

PlaylistNext == playlist_call

SpecPlaylist == PlaylistInit /\ [][PlaylistNext]_vars

\* ----------------------------------------------------- normalize_url, alone

NormInit ==
    /\ disk = EmptyDisk
    /\ dirs = {}
    /\ tasks = <<>>
    /\ ev = NoEvent
    /\ info = NoInfo
    /\ \E h \in UrlHosts, p \in UrlPaths, ps \in ParamLists :
           norm = [host |-> h, path |-> p, params |-> ps, url |-> UrlOf(h, p, ps),
                   out |-> <<>>, done |-> FALSE]

Normalize ==
    /\ ~norm.done
    /\ norm' = [norm EXCEPT !.out = normalize_url(norm.url), !.done = TRUE]
    /\ UNCHANGED <<disk, dirs, tasks, ev, info>>

NormNext == Normalize

SpecNorm == NormInit /\ [][NormNext]_vars

\* ------------------------------------------------------------------- claims

\* The basenames of the files of a tree, and the tree without the file p.
NamesIn(d) == {basename(p) : p \in DOMAIN d}
IsWithout(e, d, p) ==
    /\ p \in DOMAIN d
    /\ DOMAIN e = (DOMAIN d) \ {p}
    /\ \A q \in DOMAIN e : e[q] = d[q]
FilesNamed(d, f) == {p \in DOMAIN d : p[Len(p)] = f}

C2_IntegrityIs500 ==
    (ev.op = "video_download" /\ ev.engine = "returned" /\ ev.path \notin DOMAIN disk)
        => ev.status = "500"

\* C3: a cleanup task that wakes is the oldest pending one; it leaves the
\* task list without itself and otherwise as it was; it removes the file at
\* its path if there is one (or, if removal fails, logs the failure), changes
\* nothing if there is none, and never raises.  No other step removes or
\* reorders a pending task.
C3_Cleanup ==
    [][/\ ev'.op = "cleanup_file" =>
             /\ tasks # <<>>
             /\ ev'.path = Head(tasks)
             /\ tasks' = Tail(tasks)
             /\ ~ev'.raised
             /\ dirs' = dirs
             /\ IF Head(tasks) \in DOMAIN disk
                THEN \/ IsWithout(disk', disk, Head(tasks)) /\ ev'.log = "Cleaned up file"
                     \/ disk' = disk /\ ev'.log = "Failed to clean up file"
                ELSE disk' = disk /\ ev'.log = ""
       /\ ev'.op # "cleanup_file" =>
             /\ Len(tasks') >= Len(tasks)
             /\ SubSeq(tasks', 1, Len(tasks)) = tasks]_vars

\* A cleanup task removed the file at its path while a later task for the
\* same path, that of a re-download, is still sleeping.
C3_Witness ==
    /\ ev.op = "cleanup_file" /\ ev.log = "Cleaned up file"
    /\ ev.path \notin DOMAIN disk
    /\ tasks # <<>> /\ Head(tasks) = ev.path

\* The playlist URLs among the request URLs.
PlaylistURLs ==
    {UrlOf(DESKTOP_HOST, PATH_WATCH, <<P_VIDEO, P_LIST>>),
     UrlOf(DESKTOP_HOST, PATH_PLAYLIST, <<P_LIST>>)}

\* C4: POST /video/download with a playlist URL answers 400 without calling
\* the engine, changing the tree or scheduling a cleanup task; with a bare
\* watch URL it goes on to call the engine.
C4_PlaylistRejected ==
    [][/\ (ev'.op = "video_download" /\ ev'.arg \in PlaylistURLs) =>
             /\ ev'.status = "400"
             /\ ev'.engine = "none"
             /\ ~ev'.sched
             /\ disk' = disk /\ dirs' = dirs /\ tasks' = tasks
       /\ (ev'.op = "video_download" /\ ev'.arg = WATCH_URL) => ev'.engine # "none"]_vars

\* A playlist URL was rejected while files were stored.
C4_Witness ==
    /\ ev.op = "video_download" /\ ev.arg \in PlaylistURLs /\ ev.status = "400"
    /\ DOMAIN disk # {}

RECURSIVE SumSizes(_)
SumSizes(fs) == IF fs = <<>> THEN 0 ELSE Head(fs).file_size + SumSizes(Tail(fs))

\* C5: when the engine returned the entries of a playlist, download_playlist
\* succeeds; its files are exactly the entries whose predicted file is on
\* disk, in the engine's order, each with that file's size; downloaded_count
\* is their number and total_size the sum of their sizes.
C5_PlaylistAggregation ==
    (ev.op = "playlist_download" /\ ~info.raised /\ info.has_entries) =>
        LET es == info.entries
            present == {i \in 1..Len(es) :
                           es[i] # NoneEntry /\ <<info.dir, es[i].name>> \in DOMAIN disk}
        IN  /\ ev.status = "200"
            /\ Len(ev.files) = Cardinality(present)
            /\ ev.count = Len(ev.files)
            /\ ev.total = SumSizes(ev.files)
            /\ \E at \in [1..Len(ev.files) -> present] :
                   /\ \A j, k \in 1..Len(ev.files) : j < k => at[j] < at[k]
                   /\ \A k \in 1..Len(ev.files) :
                          /\ ev.files[k].file_path = <<info.dir, es[at[k]].name>>
                          /\ ev.files[k].file_size = disk[ev.files[k].file_path]

\* Of two entries the first one's file is missing and the second one's is
\* there: the result holds the second only.
C5_Witness ==
    /\ ev.op = "playlist_download" /\ ~info.raised /\ info.has_entries
    /\ Len(info.entries) = 2
    /\ info.entries[1] # NoneEntry
    /\ <<info.dir, info.entries[1].name>> \notin DOMAIN disk
    /\ ev.status = "200" /\ ev.count = 1 /\ ev.total = 2

\* C6, as stated: GET /download/{filename} serves the file of that name in the
\* root if there is one, else one of the files of that name in the
\* subdirectories, and answers 404 if and only if no file has that name.
C6_Resolution ==
    (ev.op = "download_file") =>
        LET f == ev.arg[1]
            m == FilesNamed(disk, f)
        IN  /\ (ev.status = "404") <=> (m = {})
            /\ (m # {}) => (ev.status = "200" /\ ev.path \in m)
            /\ (<<f>> \in m) => ev.path = <<f>>

\* C7, as stated: when the engine raised an error whose message indicates an
\* authentication or bot challenge or a cookie requirement, the response of
\* /video/info, /video/download and /playlist/download carries the
\* remediation guidance.
C7_AuthTranslated ==
    (/\ ev.op \in {"video_info", "video_download", "playlist_download"}
     /\ ev.engine = "raised"
     /\ ev.msg \in AuthMsgs)
        => AUTH_GUIDANCE \in Words(ev.detail)

\* The parameter a query string's parameter becomes when every mobile host in
\* it is replaced.
ParamDesktop(p) == IF p = P_MOBILE THEN P_DESKTOP ELSE p
HostDesktop(h) == IF h = MOBILE_HOST THEN DESKTOP_HOST ELSE h

\* The text of s after its last occurrence of mark, up to the first "?".
AfterLast(s, mark) ==
    LET at == {i \in 1..(Len(s) - Len(mark) + 1) : SubSeq(s, i, i + Len(mark) - 1) = mark}
        i == CHOOSE i \in at : \A j \in at : j <= i
    IN  SubSeq(s, i + Len(mark), Len(s))
UpToQuery(s) ==
    LET at == {i \in 1..Len(s) : s[i] = "?"}
    IN  IF at = {} THEN s ELSE SubSeq(s, 1, (CHOOSE i \in at : \A j \in at : i <= j) - 1)
HasMark(s, mark) ==
    \E i \in 1..(Len(s) - Len(mark) + 1) : SubSeq(s, i, i + Len(mark) - 1) = mark

C9_ShortLink ==
    (/\ norm.done /\ norm.host = SHORT_HOST
     /\ Len(norm.path) > 1 /\ ~HasMark(Tail(norm.path), SLASH))
        => norm.out = WATCH_PREFIX \o Tail(norm.path)

\* C10: a step appends a cleanup task exactly when it is a POST
\* /video/download that answers 200, and then the one task is for the
\* file_path of the response; no other request changes the task list; and a
\* file of a playlist subdirectory disappears only in a DELETE /files that
\* answers 200 for it.
C10_Scheduling ==
    [][/\ (ev'.op = "video_download" /\ ev'.status = "200") =>
             /\ tasks' = Append(tasks, ev'.path)
             /\ ev'.sched
             /\ ev'.path \in DOMAIN disk'
       /\ (ev'.op # "cleanup_file" /\ ~(ev'.op = "video_download" /\ ev'.status = "200"))
             => tasks' = tasks
       /\ \A p \in DOMAIN disk :
             (Len(p) = 2 /\ p \notin DOMAIN disk')
                 => (ev'.op = "delete_file" /\ ev'.status = "200" /\ ev'.path = p)]_vars

\* A video download scheduled its task while a playlist's file is stored.
C10_Witness ==
    /\ ev.op = "video_download" /\ ev.status = "200" /\ ev.sched
    /\ tasks # <<>> /\ tasks[Len(tasks)] = ev.path
    /\ \E p \in DOMAIN disk : Len(p) = 2

\* C11, as stated: a GET /download of a download_url that the response just
\* before it gave (a 200 of /video/download or /playlist/download) serves the
\* very file that response gave the URL for.
C11_UrlServesOwnFile ==
    (ev.op = "download_file" /\ ev.offered # {})
        => (ev.status = "200" /\ ev.offered = {ev.path})

\* C11: a GET /download of a download_url that the response just before it
\* gave answers 200.  After /video/download it serves the file of the
\* response.  After /playlist/download it serves the file of that name in the
\* root if there is one, else one of the files of that name in the playlist
\* subdirectories: the file of the response when no other stored file has
\* its name.
C11_UrlResolution ==
    (ev.op = "download_file" /\ ev.offered # {}) =>
        LET f == ev.arg[1]
            m == FilesNamed(disk, f)
        IN  /\ ev.status = "200"
            /\ ev.offered \subseteq m
            /\ ev.path \in m
            /\ (<<f>> \in m) => ev.path = <<f>>
            /\ (\E p \in ev.offered : Len(p) = 1) => ev.offered = {ev.path}
            /\ (m = ev.offered) => ev.offered = {ev.path}

\* The URL of a playlist's file, requested right after the playlist's
\* response, served that file from its subdirectory.
C11_Witness ==
    /\ ev.op = "download_file" /\ ev.status = "200"
    /\ ev.offered = {ev.path}
    /\ Len(ev.path) = 2
    /\ FilesNamed(disk, ev.arg[1]) = {ev.path}

====
